---- MODULE Spec2Model ----
(***************************************************************************)
(* Model of the NAMASTE -> ICD-11 TM2 mapping engine: the LangGraph        *)
(* mapping workflow (mapping-graph.js), the interactive POST /mapping      *)
(* handler (routes/mapping.js), the in-memory batch job queue              *)
(* (batch-processor.js), the mapping store reached through Prisma, and the *)
(* fixed-window rate limiter (middleware/rate-limiter.js).                 *)
(*                                                                         *)
(* Numbers: confidences and scores are hundredths (0.85 is 85); times of   *)
(* the rate limiter are abstract milliseconds.                             *)
(***************************************************************************)
EXTENDS Integers, Sequences, FiniteSets, TLC

\* ------------------------------------------------------------------------
\* Bounds of the model
\* ------------------------------------------------------------------------
MaxJobs == 1
MaxItems == 2
MaxTime == 6
WindowMs == 2
MaxRequestsMapping == 2
MaxRequestsBatch == 1
MsPerInstant == 500
MaxQueueJobs == 4
MaxQueueItems == 2
CacheMaxSize == 2
CacheTtlMs == 2
MaxCacheCalls == 5

\* ------------------------------------------------------------------------
\* Program constants
\* ------------------------------------------------------------------------
maxConcurrent == 3
MaxTotal == 100
HighScore == 90
HighConfidenceDefault == 85
FallbackConfidence == 50
DeadlineMs == 25000

NULL == "null"

\* ------------------------------------------------------------------------
\* Catalogues held by the store (namaste_codes and tm2_codes are read-only
\* for every operation modelled here)
\* ------------------------------------------------------------------------
\* The text fields preprocessNode reads, in its order: shortDefinition,
\* englishName, longDefinition, term, termNormalized ("" stands for an
\* absent or empty field).
NamasteCodes ==
  { [id |-> "n1", code |-> "AAA-1", system |-> "AYURVEDA",
     fields |-> <<"fever", "Jvara", "", "jvara", "">>],
    [id |-> "n2", code |-> "AAA-2", system |-> "AYURVEDA",
     fields |-> <<"", "", "", "", "">>] }

Tm2Codes == {"SK00", "SK01", "SK02", "SK03"}

\* Codes a caller may send: two stored ones and one that is not stored.
RequestCodes == {"AAA-1", "AAA-2", "ZZZ-9"}
RequestSystems == {"ayurveda"}

\* system.toUpperCase() / equivalence.toUpperCase()
toUpperCase(s) ==
  CASE s = "ayurveda" -> "AYURVEDA"
    [] s = "siddha" -> "SIDDHA"
    [] s = "unani" -> "UNANI"
    [] s = "equivalent" -> "EQUIVALENT"
    [] s = "wider" -> "WIDER"
    [] s = "narrower" -> "NARROWER"
    [] s = "inexact" -> "INEXACT"
    [] s = "unmatched" -> "UNMATCHED"
    [] s = "related" -> "RELATED"
    [] OTHER -> s

\* prisma.namasteCode.findFirst({ where: { code, system } }): <<>> or <<row>>
findNamasteCode(code, systemEnum) ==
  LET hit == { n \in NamasteCodes : n.code = code /\ n.system = systemEnum }
  IN  IF hit = {} THEN <<>> ELSE << CHOOSE n \in hit : TRUE >>

\* prisma.tm2Code.findFirst({ where: { code } })
findTm2Code(code) == IF code \in Tm2Codes THEN <<code>> ELSE <<>>

\* The Equivalence enum of the Prisma schema
EquivalenceEnum ==
  {"EQUIVALENT", "WIDER", "NARROWER", "INEXACT", "UNMATCHED", "DISJOINT"}

\* ------------------------------------------------------------------------
\* What the external services may answer during one workflow run
\* ------------------------------------------------------------------------
Some(x) == <<x>>
None == <<>>

Cand(code, score) == [code |-> code, score |-> score]
KwRow(code, matches) == [code |-> code, matches |-> matches]

\* The answers of the two tm2_codes queries of semanticSearchNode: the
\* full-text rows as the database orders them, the number of keywords the
\* text yields, and the rows of the keyword findMany with the number of
\* keywords each contains (findMany returns rows in no stated order).
SearchAnswers ==
  { [throws |-> FALSE, fulltext |-> <<>>, keywords |-> 0, keywordRows |-> <<>>],
    [throws |-> TRUE, fulltext |-> <<>>, keywords |-> 0, keywordRows |-> <<>>],
    [throws |-> FALSE, fulltext |-> <<Cand("SK00", 95)>>, keywords |-> 1,
     keywordRows |-> <<>>],
    [throws |-> FALSE,
     fulltext |-> <<Cand("SK00", 55), Cand("SK01", 40), Cand("SK02", 30),
                    Cand("SK03", 20)>>,
     keywords |-> 2, keywordRows |-> <<>>],
    [throws |-> FALSE, fulltext |-> <<>>, keywords |-> 2,
     keywordRows |-> <<KwRow("SK01", 1), KwRow("SK00", 2)>>] }

\* model.invoke(prompt): it throws, or answers text with no JSON object, or
\* text whose JSON object has these fields (None is null or absent).
LlmJson(code, conf, equiv) ==
  [kind |-> "json", selectedCode |-> code, confidence |-> conf,
   equivalence |-> equiv, reasoning |-> Some("llm rationale")]

LlmAnswers ==
  { [kind |-> "throw", selectedCode |-> None, confidence |-> None,
     equivalence |-> None, reasoning |-> None],
    [kind |-> "nojson", selectedCode |-> None, confidence |-> None,
     equivalence |-> None, reasoning |-> None],
    LlmJson(Some("SK01"), Some(78), Some("narrower")),
    LlmJson(Some("XX99"), Some(90), Some("EQUIVALENT")),
    LlmJson(None, Some(78), Some("inexact")),
    LlmJson(None, None, None),
    LlmJson(Some("SK00"), Some(150), Some("EQUIVALENT")),
    LlmJson(Some("SK00"), Some(80), Some("related")),
    LlmJson(Some("SK03"), Some(60), Some("wider")) }

\* One run's environment: does workflow.invoke itself reject, does the
\* embedder answer, what the searches return, what the LLM answers.
\* Full-text answers whose top score lies on the routing threshold, and
\* at the top of the scale; a keyword answer whose rows contain the same
\* number of keywords
EdgeSearchAnswers ==
  { [throws |-> FALSE, fulltext |-> <<Cand("SK02", 90), Cand("SK01", 90)>>,
     keywords |-> 1, keywordRows |-> <<>>],
    [throws |-> FALSE, fulltext |-> <<Cand("SK01", 91), Cand("SK00", 91)>>,
     keywords |-> 1, keywordRows |-> <<>>],
    [throws |-> FALSE, fulltext |-> <<>>, keywords |-> 2,
     keywordRows |-> <<KwRow("SK03", 1), KwRow("SK01", 1)>>] }

AllWorkflowEnvs ==
  [invokeOk : BOOLEAN, embedOk : BOOLEAN,
   search : SearchAnswers \cup EdgeSearchAnswers, llm : LlmAnswers]

NoSearchHit == CHOOSE a \in SearchAnswers : ~a.throws /\ a.keywords = 0
LlmThrow == CHOOSE a \in LlmAnswers : a.kind = "throw"

\* The LLM is asked only when the search finds candidates of which the top
\* one scores at most 0.9, and nothing is read once workflow.invoke rejects:
\* the answers no run reads are fixed to one value.
llmAsked(search) ==
  /\ ~search.throws
  /\ \/ Len(search.fulltext) > 0 /\ search.fulltext[1].score <= 90
     \/ Len(search.fulltext) = 0 /\ search.keywords > 0
          /\ \A i \in 1..Len(search.keywordRows) :
                search.keywordRows[i].matches * 100 <= 90 * search.keywords

WorkflowEnvs ==
  { e \in AllWorkflowEnvs :
      /\ e.search \in SearchAnswers
      /\ ~llmAsked(e.search) => e.llm = LlmThrow
      /\ ~e.invokeOk => e.embedOk /\ e.search = NoSearchHit /\ e.llm = LlmThrow }

\* ------------------------------------------------------------------------
\* The mapping workflow (mapping-graph.js)
\* ------------------------------------------------------------------------
\* Default values of the MappingState annotation
MappingState(namasteCode) ==
  [namasteCode |-> namasteCode, normalizedText |-> <<>>, embedding |-> <<>>,
   tm2Candidates |-> <<>>, selectedMapping |-> NULL, confidence |-> 0,
   equivalence |-> "UNMATCHED", reasoning |-> "", errors |-> <<>>,
   visited |-> <<>>]

\* [..].filter(Boolean): the non-empty text parts, in order; their join is
\* '' exactly when none is left
filterBoolean(fields) == SelectSeq(fields, LAMBDA f : f # "")

preprocessNode(state) ==
  [state EXCEPT !.normalizedText = filterBoolean(state.namasteCode.fields),
                !.visited = Append(@, "preprocess")]

\* embedNode without the test for an empty text (lines 124-126)
embedNodeEmbedsEmpty(state, embedOk) ==
  LET st == [state EXCEPT !.visited = Append(@, "embed")]
  IN  IF embedOk
        THEN [st EXCEPT !.embedding = <<"vector">>]
        ELSE [st EXCEPT !.embedding = <<>>,
                        !.errors = Append(@, "Embedding failed")]

\* embedNode whose catch records no error
embedNodeSilent(state, embedOk) ==
  LET st == [state EXCEPT !.visited = Append(@, "embed")]
  IN  IF st.normalizedText = <<>>
        THEN [st EXCEPT !.errors = Append(@, "No normalized text for embedding")]
      ELSE IF embedOk
        THEN [st EXCEPT !.embedding = <<"vector">>]
      ELSE [st EXCEPT !.embedding = <<>>]

embedNode(state, embedOk) ==
  LET st == [state EXCEPT !.visited = Append(@, "embed")]
  IN  IF st.normalizedText = <<>>
        THEN [st EXCEPT !.errors = Append(@, "No normalized text for embedding")]
      ELSE IF embedOk
        THEN [st EXCEPT !.embedding = <<"vector">>]
      ELSE [st EXCEPT !.embedding = <<>>,
                      !.errors = Append(@, "Embedding failed")]

\* Array.prototype.sort with (a, b) => b.score - a.score: stable, by
\* nonincreasing score
RECURSIVE insertByScore(_, _)
insertByScore(sorted, c) ==
  IF sorted = <<>> THEN <<c>>
  ELSE IF Head(sorted).score >= c.score
    THEN <<Head(sorted)>> \o insertByScore(Tail(sorted), c)
  ELSE <<c>> \o sorted

RECURSIVE sortByScore(_)
sortByScore(cands) ==
  IF cands = <<>> THEN <<>>
  ELSE insertByScore(sortByScore(SubSeq(cands, 1, Len(cands) - 1)),
                     cands[Len(cands)])

\* score: matched keywords / keywords.length
keywordScore(row, keywords) == (row.matches * 100) \div keywords

semanticSearchNode(state, search) ==
  LET st == [state EXCEPT !.visited = Append(@, "search")]
      hasText == st.normalizedText # <<>>
      candidates == IF hasText THEN search.fulltext ELSE <<>>
      keywords == IF hasText THEN search.keywords ELSE 0
      scored == [i \in 1..Len(search.keywordRows) |->
                   Cand(search.keywordRows[i].code,
                        keywordScore(search.keywordRows[i], keywords))]
      tm2Candidates ==
        IF Len(candidates) = 0
          THEN (IF keywords > 0 THEN scored ELSE candidates)
          ELSE candidates
  IN  IF search.throws
        THEN [st EXCEPT !.tm2Candidates = <<>>,
                        !.errors = Append(@, "Search failed")]
        ELSE [st EXCEPT !.tm2Candidates = sortByScore(tm2Candidates)]

\* routeByConfidence taking a top score of exactly 0.9 as high
routeByConfidenceInclusive(state) ==
  IF Len(state.tm2Candidates) = 0 THEN "end"
  ELSE IF state.tm2Candidates[1].score >= HighScore THEN "high_confidence"
  ELSE "validate"

\* routeByConfidence without the early end on no candidates
routeByConfidenceNoEnd(state) ==
  IF Len(state.tm2Candidates) > 0 /\ state.tm2Candidates[1].score > HighScore
    THEN "high_confidence"
    ELSE "validate"

routeByConfidence(state) ==
  IF Len(state.tm2Candidates) = 0 THEN "end"
  ELSE IF state.tm2Candidates[1].score > HighScore THEN "high_confidence"
  ELSE "validate"

\* topCandidate?.score || 0.85
highConfidenceNode(state) ==
  LET topCandidate == state.tm2Candidates[1]
  IN  [state EXCEPT
         !.selectedMapping = topCandidate.code,
         !.confidence = IF topCandidate.score # 0 THEN topCandidate.score
                        ELSE HighConfidenceDefault,
         !.equivalence = "EQUIVALENT",
         !.reasoning = "High confidence text match",
         !.visited = Append(@, "high_confidence")]

\* tm2Candidates.find(c => c.code === code) || null
findCandidate(tm2Candidates, code) ==
  IF \E i \in 1..Len(tm2Candidates) : tm2Candidates[i].code = code
    THEN code ELSE NULL

\* The catch branch giving up instead of taking the top candidate
aiValidationFallbackUnmatched(st) ==
  [st EXCEPT !.selectedMapping = NULL,
             !.confidence = 0,
             !.equivalence = "UNMATCHED",
             !.reasoning = "AI validation failed",
             !.errors = Append(@, "AI validation error")]

\* The catch branch of aiValidationNode
aiValidationFallback(st) ==
  [st EXCEPT !.selectedMapping = st.tm2Candidates[1].code,
             !.confidence = FallbackConfidence,
             !.equivalence = "INEXACT",
             !.reasoning = "AI validation failed",
             !.errors = Append(@, "AI validation error")]

aiValidationNode(state, llm) ==
  LET st == [state EXCEPT !.visited = Append(@, "validate")]
  IN  IF Len(st.tm2Candidates) = 0
        THEN [st EXCEPT !.selectedMapping = NULL, !.confidence = 0,
                        !.equivalence = "UNMATCHED",
                        !.reasoning = "No TM2 candidates found for validation"]
      ELSE IF llm.kind # "json"
        THEN aiValidationFallback(st)
      ELSE
        [st EXCEPT
           !.selectedMapping =
              IF llm.selectedCode # None
                THEN findCandidate(st.tm2Candidates, llm.selectedCode[1])
                ELSE NULL,
           !.confidence = IF llm.confidence # None THEN llm.confidence[1] ELSE 0,
           !.equivalence = IF llm.equivalence # None
                             THEN toUpperCase(llm.equivalence[1])
                             ELSE "UNMATCHED",
           !.reasoning = IF llm.reasoning # None THEN llm.reasoning[1] ELSE ""]

\* The compiled graph: preprocess -> embed -> search -> routeByConfidence
\* -> (high_confidence | validate | end)
createMappingWorkflow(namasteCode, env) ==
  LET s1 == preprocessNode(MappingState(namasteCode))
      s2 == embedNode(s1, env.embedOk)
      s3 == semanticSearchNode(s2, env.search)
      route == routeByConfidence(s3)
  IN  CASE route = "high_confidence" -> highConfidenceNode(s3)
        [] route = "validate" -> aiValidationNode(s3, env.llm)
        [] OTHER -> s3

mapNamasteToTm2(namasteCode, env) ==
  LET result == createMappingWorkflow(namasteCode, env)
  IN  IF env.invokeOk
        THEN [success |-> TRUE, namasteCode |-> namasteCode.code,
              tm2Code |-> result.selectedMapping,
              confidence |-> result.confidence,
              equivalence |-> result.equivalence,
              reasoning |-> result.reasoning,
              errors |-> result.errors, visited |-> result.visited]
        ELSE [success |-> FALSE, namasteCode |-> namasteCode.code,
              tm2Code |-> NULL, confidence |-> 0,
              equivalence |-> "UNMATCHED", reasoning |-> "Mapping failed",
              errors |-> <<"workflow error">>, visited |-> <<>>]

\* Every run of the workflow, computed once: what await
\* mapNamasteToTm2(namasteCode) resolves to under each environment
workflowTable ==
  { [namasteCode |-> namasteCode, env |-> env,
     result |-> mapNamasteToTm2(namasteCode, env)] :
      namasteCode \in NamasteCodes, env \in WorkflowEnvs }

\* The runs by source code and environment
workflowRuns ==
  [namasteCode \in NamasteCodes |->
     [env \in WorkflowEnvs |->
        (CHOOSE run \in workflowTable :
           run.namasteCode = namasteCode /\ run.env = env).result]]

\* The number of candidates the search of each run returns
candidateCounts ==
  [id \in { n.id : n \in NamasteCodes } |->
     [env \in WorkflowEnvs |->
        IF env.invokeOk
          THEN Len(createMappingWorkflow(
                     CHOOSE n \in NamasteCodes : n.id = id, env).tm2Candidates)
          ELSE 0]]

\* ------------------------------------------------------------------------
\* State
\* ------------------------------------------------------------------------
VARIABLES
  mappings,        \* the mappings table: (namasteCodeId, tm2 code) -> row
  requests,        \* the interactive POST /mapping requests in flight
  jobs,            \* batch-processor.js: the jobs Map (job id = index)
  jobQueue,        \* batch-processor.js: ids waiting to be started
  isProcessing,    \* batch-processor.js: re-entrancy flag of processQueue
  activeJobs,      \* batch-processor.js: number of processJob calls running
  lastUpsert,      \* history: per source, the last mapping an upsert wrote
  rateLimitStore,  \* rate-limiter.js: caller key -> bucket
  now,             \* rate limiter: Date.now()
  forwarded,       \* history: the requests each limiter passed to next()
  lastRun,         \* the latest direct call of mapNamasteToTm2 and its result
  lastTranslate,   \* the latest answer of POST /fhir/ConceptMap/$translate
  limiterAnswer,   \* what the limiter step just taken answered (else none)
  lastValidate,    \* the latest PATCH /:id/validate: its input and answer
  lru,             \* cache.js: one LRUCache (entries, stats) and its calls
  lastProgress     \* the progress of a job after the latest item counted

vars == <<mappings, requests, jobs, jobQueue, isProcessing, activeJobs,
          lastUpsert, rateLimitStore, now, forwarded, lastRun, lastTranslate,
          limiterAnswer, lastValidate, lru, lastProgress>>

sideVars == <<lastValidate, lru, lastProgress>>

storeVars == <<mappings, lastUpsert>>
jobVars == <<jobs, jobQueue, isProcessing, activeJobs>>
limiterVars == <<rateLimitStore, now, forwarded, limiterAnswer>>

\* ------------------------------------------------------------------------
\* The mappings table behind prisma.mapping
\* ------------------------------------------------------------------------
NamasteIds == { n.id : n \in NamasteCodes }
namasteById(id) == CHOOSE n \in NamasteCodes : n.id = id

\* A mapping a reviewer validated before the service started
HumanRow ==
  [equivalence |-> "EQUIVALENT", confidence |-> 85,
   mappingSource |-> "HUMAN_VALIDATED", validationStatus |-> "APPROVED",
   validatedBy |-> "dr_rao", validatedAt |-> "2025-11-01",
   reasoning |-> "Reviewed by clinician", createdAt |-> "2025-10-30"]

SeedStores == { <<>>, [k \in {<<"n1", "SK00">>} |-> HumanRow] }

\* The rows of one source (where: { namasteCode: { code, system } })
rowsOf(table, code, systemEnum) ==
  { k \in DOMAIN table :
      namasteById(k[1]).code = code /\ namasteById(k[1]).system = systemEnum }

\* findFirstMapping ordering by ascending confidence
findFirstMappingAsc(table, code, systemEnum) ==
  LET rows == { k \in DOMAIN table :
                  \E n \in NamasteCodes :
                    n.id = k[1] /\ n.code = code /\ n.system = systemEnum }
  IN  { k \in rows : \A o \in rows : table[k].confidence <= table[o].confidence }

\* findFirstMapping reading only the rows a reviewer approved
findFirstMappingApproved(table, code, systemEnum) ==
  LET rows == { k \in rowsOf(table, code, systemEnum) :
                  table[k].validationStatus = "APPROVED" }
  IN  { k \in rows : \A o \in rows : table[k].confidence >= table[o].confidence }

\* orderBy: { confidence: 'desc' } and findFirst: the rows that may come
\* first (rows of equal confidence come in no stated order)
findFirstMapping(table, code, systemEnum) ==
  LET rows == rowsOf(table, code, systemEnum)
  IN  { k \in rows : \A o \in rows : table[k].confidence >= table[o].confidence }

\* upsertUpdate that writes the row anew, as the create branch does
upsertUpdateAsCreate(row, data) ==
  [equivalence |-> data.equivalence, confidence |-> data.confidence,
   mappingSource |-> "AI_VALIDATED", validationStatus |-> "PENDING",
   validatedBy |-> NULL, validatedAt |-> NULL, reasoning |-> data.reasoning,
   createdAt |-> "now"]

\* upsertUpdate that leaves the stored reasoning in place
upsertUpdateKeepsReasoning(row, data) ==
  [row EXCEPT !.equivalence = data.equivalence,
              !.confidence = data.confidence,
              !.mappingSource = "AI_VALIDATED"]

\* The update branch of prisma.mapping.upsert in both callers
upsertUpdate(row, data) ==
  [row EXCEPT !.equivalence = data.equivalence,
              !.confidence = data.confidence,
              !.mappingSource = "AI_VALIDATED",
              !.reasoning = data.reasoning]

\* The create branch; validationStatus, validatedBy, validatedAt and
\* createdAt take the defaults of the Mapping model (createdAt: the time of
\* the insert, written "now")
upsertCreate(data) ==
  [equivalence |-> data.equivalence, confidence |-> data.confidence,
   mappingSource |-> "AI_VALIDATED", validationStatus |-> "PENDING",
   validatedBy |-> NULL, validatedAt |-> NULL, reasoning |-> data.reasoning,
   createdAt |-> "now"]

\* prisma.mapping.upsert rejects a value outside the Equivalence enum and
\* fails when the database does
upsertThrows(data, dbOk) == ~dbOk \/ data.equivalence \notin EquivalenceEnum

upsert(table, key, data) ==
  IF key \in DOMAIN table
    THEN [table EXCEPT ![key] = upsertUpdate(table[key], data)]
    ELSE [k \in DOMAIN table \cup {key} |->
            IF k = key THEN upsertCreate(data) ELSE table[k]]

written(key, data) ==
  Some([tm2Code |-> key[2], equivalence |-> data.equivalence,
        confidence |-> data.confidence])

\* ------------------------------------------------------------------------
\* POST /mapping (routes/mapping.js)
\* ------------------------------------------------------------------------
MaxInFlight == 1
RequestIds == 1..MaxInFlight

\* How long a workflow run may take, in ms
PipelineDurations == {1000, 30000}

Response(status, source, success, tm2Code, equivalence, confidence, reasoning) ==
  [status |-> status, source |-> source, success |-> success,
   tm2Code |-> tm2Code, equivalence |-> equivalence,
   confidence |-> confidence, reasoning |-> reasoning]

NoResponse == Response(0, "", FALSE, NULL, "", 0, "")
ErrorResponse(status) == Response(status, "", FALSE, NULL, "", 0, "")

IdleRequest ==
  [pc |-> "idle", code |-> "", system |-> "", namasteId |-> NULL,
   result |-> None, pipelineMs |-> 0, response |-> NoResponse,
   wrote |-> FALSE, lastAtRead |-> None, rowsAtRead |-> <<>>,
   candidates |-> 0, visited |-> <<>>, writeFailed |-> FALSE]

\* The stored rows of one source, as one read of the store finds them
sourceRows(table, code, systemEnum) ==
  [k \in rowsOf(table, code, systemEnum) |-> table[k]]

\* Lines 36-105: validation has passed; look for an existing mapping, answer
\* it as 'cached', else fetch the source code (404 if absent) and start the
\* workflow.  (rowsAtRead, candidates, visited and writeFailed are history:
\* the source's rows at the findFirst, the number of candidates the search
\* of the request's run returned, the nodes that run visited, and whether
\* the request's upsert threw.)
PostMapping(r, code, system) ==
  /\ requests[r].pc \in {"idle", "done"}
  /\ LET systemEnum == toUpperCase(system)
         first == findFirstMapping(mappings, code, systemEnum)
         namasteCode == findNamasteCode(code, systemEnum)
         fresh == [IdleRequest EXCEPT
                     !.code = code, !.system = system,
                     !.rowsAtRead = sourceRows(mappings, code, systemEnum)]
     IN  IF first # {}
           THEN \E k \in first :
                  requests' = [requests EXCEPT ![r] =
                    [fresh EXCEPT
                       !.pc = "done",
                       !.namasteId = k[1],
                       !.lastAtRead = lastUpsert[k[1]],
                       !.response =
                          Response(200, "cached", TRUE, k[2],
                                   mappings[k].equivalence,
                                   mappings[k].confidence,
                                   mappings[k].reasoning)]]
         ELSE IF namasteCode = <<>>
           THEN requests' = [requests EXCEPT ![r] =
                  [fresh EXCEPT !.pc = "done", !.response = ErrorResponse(404)]]
         ELSE requests' = [requests EXCEPT ![r] =
                  [fresh EXCEPT !.pc = "pipeline",
                                !.namasteId = namasteCode[1].id]]
  /\ UNCHANGED <<storeVars, jobVars, limiterVars, lastRun,
               lastTranslate, sideVars>>

\* Lines 139-158: the 200 answer built from the workflow result
WorkflowResponse(mappingResult) ==
  Response(200, "ai_workflow", mappingResult.success, mappingResult.tm2Code,
           mappingResult.equivalence, mappingResult.confidence,
           mappingResult.reasoning)

\* Lines 105-112: await mapNamasteToTm2(namasteCode) returns after ms
\* milliseconds; a result with a target goes on to the upsert, any other is
\* answered at once.
PipelineReturns(r, env, ms) ==
  /\ requests[r].pc = "pipeline"
  /\ LET mappingResult == workflowRuns[namasteById(requests[r].namasteId)][env]
         ran == [requests[r] EXCEPT
                   !.pipelineMs = ms,
                   !.visited = mappingResult.visited,
                   !.candidates = candidateCounts[requests[r].namasteId][env]]
         store == mappingResult.success /\ mappingResult.tm2Code # NULL
                    /\ findTm2Code(mappingResult.tm2Code) # <<>>
     IN  requests' = [requests EXCEPT ![r] =
           IF store
             THEN [ran EXCEPT !.pc = "upsert",
                              !.result = Some(WorkflowResponse(mappingResult))]
             ELSE [ran EXCEPT !.pc = "done",
                              !.response = WorkflowResponse(mappingResult)]]
  /\ UNCHANGED <<storeVars, jobVars, limiterVars, lastRun,
               lastTranslate, sideVars>>

\* Lines 114-135 and the catch at 160-165: the upsert writes the row and the
\* handler answers 200, or the upsert throws and the handler answers 500.
\* (result holds the workflow result as the answer built from it.)
UpsertReturns(r, dbOk) ==
  /\ requests[r].pc = "upsert"
  /\ LET mappingResult == requests[r].result[1]
         key == <<requests[r].namasteId, mappingResult.tm2Code>>
         data == [equivalence |-> toUpperCase(mappingResult.equivalence),
                  confidence |-> mappingResult.confidence,
                  reasoning |-> mappingResult.reasoning]
     IN  IF upsertThrows(data, dbOk)
           THEN /\ requests' = [requests EXCEPT ![r] =
                     [@ EXCEPT !.pc = "done", !.result = None,
                               !.writeFailed = TRUE,
                               !.response = ErrorResponse(500)]]
                /\ UNCHANGED storeVars
           ELSE /\ mappings' = upsert(mappings, key, data)
                /\ lastUpsert' = [lastUpsert EXCEPT ![key[1]] = written(key, data)]
                /\ requests' = [requests EXCEPT ![r] =
                     [@ EXCEPT !.pc = "done", !.result = None, !.wrote = TRUE,
                               !.response = mappingResult]]
  /\ UNCHANGED <<jobVars, limiterVars, lastRun,
               lastTranslate, sideVars>>

\* ------------------------------------------------------------------------
\* POST /fhir/ConceptMap/$translate (routes/fhir.js)
\* ------------------------------------------------------------------------
\* mapping.equivalence.toLowerCase()
toLowerCase(s) ==
  CASE s = "EQUIVALENT" -> "equivalent"
    [] s = "WIDER" -> "wider"
    [] s = "NARROWER" -> "narrower"
    [] s = "INEXACT" -> "inexact"
    [] s = "UNMATCHED" -> "unmatched"
    [] s = "DISJOINT" -> "disjoint"
    [] OTHER -> s

\* system.includes('ayurveda') ? 'AYURVEDA' : ... : null
systemTypeOf(system) ==
  CASE system = "ayurveda" -> "AYURVEDA"
    [] system = "siddha" -> "SIDDHA"
    [] system = "unani" -> "UNANI"
    [] OTHER -> NULL

\* include: { mappings: { orderBy: { confidence: 'desc' } } }: the orders in
\* which the rows may come (rows of equal confidence in no stated order)
orderedByConfidence(rows) ==
  { seq \in [1..Cardinality(DOMAIN rows) -> DOMAIN rows] :
      /\ \A i, j \in DOMAIN seq : i # j => seq[i] # seq[j]
      /\ \A i, j \in DOMAIN seq :
           i < j => rows[seq[i]].confidence >= rows[seq[j]].confidence }

\* One 'match' parameter of the Parameters document
translateMatch(key, row) ==
  [equivalence |-> toLowerCase(row.equivalence), tm2Code |-> key[2],
   source |-> row.mappingSource, confidence |-> row.confidence]

NoTranslate ==
  [asked |-> FALSE, code |-> "", system |-> "", result |-> FALSE,
   matches |-> <<>>, rows |-> <<>>]

\* Lines 173-247: the handler reads the source code with its stored
\* mappings and answers from them alone (rows is history: the source's rows
\* at that read).
Translate(code, system) ==
  /\ LET systemType == systemTypeOf(system)
         namasteCode == findNamasteCode(code, systemType)
         rows == sourceRows(mappings, code, systemType)
         answer == [NoTranslate EXCEPT !.asked = TRUE, !.code = code,
                                       !.system = system, !.rows = rows]
     IN  IF systemType = NULL \/ namasteCode = <<>> \/ DOMAIN rows = {}
           THEN lastTranslate' = answer
           ELSE \E seq \in orderedByConfidence(rows) :
                  lastTranslate' =
                    [answer EXCEPT
                       !.result = TRUE,
                       !.matches = [i \in DOMAIN seq |->
                                      translateMatch(seq[i], rows[seq[i]])]]
  /\ UNCHANGED <<storeVars, requests, jobVars, limiterVars, lastRun,
                 sideVars>>

\* ------------------------------------------------------------------------
\* PATCH /:id/validate (routes/mapping.js)
\* ------------------------------------------------------------------------
\* The statuses a body may carry: the three the route accepts and one it
\* does not
ValidateStatuses == {"APPROVED", "REJECTED", "NEEDS_REVIEW", "PENDING"}
AllowedValidateStatuses == {"APPROVED", "REJECTED", "NEEDS_REVIEW"}

\* body.validatedBy: absent (None), null, or a name
ValidatedByInputs == {None, Some(NULL), Some("dr_iyer")}

\* The ids a caller may name: every stored row and one that is not stored
ValidateIds == DOMAIN mappings \cup {<<"n1", "SK03">>}

NoValidate ==
  [done |-> FALSE, id |-> <<NULL, NULL>>, status |-> "", validatedBy |-> None,
   response |-> 0]

\* data: { validationStatus: status, validatedBy, validatedAt: new Date() }:
\* a field whose value is undefined is left out of the update
validateUpdate(row, status, validatedBy) ==
  [row EXCEPT !.validationStatus = status,
              !.validatedBy = IF validatedBy = None THEN @ ELSE validatedBy[1],
              !.validatedAt = "now"]

\* Lines 416-448: 400 for a status outside the list; prisma.mapping.update
\* rejects for an id that is not stored (500); else the row is updated and
\* the answer is 200
PatchValidate(id, status, validatedBy) ==
  /\ lastValidate' =
       [done |-> TRUE, id |-> id, status |-> status, validatedBy |-> validatedBy,
        response |-> IF status \notin AllowedValidateStatuses THEN 400
                     ELSE IF id \notin DOMAIN mappings THEN 500
                     ELSE 200]
  /\ IF status \in AllowedValidateStatuses /\ id \in DOMAIN mappings
       THEN mappings' = [mappings EXCEPT
                           ![id] = validateUpdate(@, status, validatedBy)]
       ELSE UNCHANGED mappings
  /\ UNCHANGED <<lastUpsert, requests, jobVars, limiterVars, lastRun,
                 lastTranslate, lru, lastProgress>>

\* ------------------------------------------------------------------------
\* The batch job queue (batch-processor.js)
\* ------------------------------------------------------------------------
JobStatus ==
  [PENDING |-> "pending", PROCESSING |-> "processing",
   COMPLETED |-> "completed", FAILED |-> "failed", CANCELLED |-> "cancelled"]

\* Sequences of 1..n elements of S
SeqUpTo(S, n) == UNION { [1..m -> S] : m \in 1..n }

\* The items of the bodies POST /batch/async accepts (1 to 100 validated
\* items): a stored code and one that is not stored
BatchCodes == {"AAA-1", "ZZZ-9"}
BatchItem == [code : BatchCodes, system : RequestSystems]

\* Math.round((completed / total) * 100)
percentageOf(completed, total) == (200 * completed + total) \div (2 * total)

\* Lines 286-312: the job object createBatchJob builds (of codeItem.result
\* the success flag is kept).  pc, i and result are the position of its
\* processJob call; cancelled, callbacks, admission
\* and cancelledAt are history (cancelJob succeeded; callback POSTs sent,
\* with their status; what createBatchJob returned; the item and whether it
\* was in flight when cancelJob succeeded).
newJob(codes, callbackUrl, saveResults) ==
  [status |-> JobStatus.PENDING, callbackUrl |-> callbackUrl,
   saveResults |-> saveResults,
   codes |-> [i \in 1..Len(codes) |->
                [code |-> codes[i].code, system |-> codes[i].system,
                 status |-> "pending", result |-> None]],
   progress |-> [total |-> Len(codes), completed |-> 0, successful |-> 0,
                 failed |-> 0, percentage |-> 0],
   startedAt |-> FALSE, completedAt |-> FALSE,
   pc |-> "queued", i |-> 0, result |-> None,
   cancelled |-> FALSE, callbacks |-> <<>>, admission |-> None,
   cancelledAt |-> None]

\* startJob that begins with the last item of the job
startJobLast(job) ==
  [job EXCEPT !.status = JobStatus.PROCESSING, !.startedAt = TRUE,
              !.i = Len(job.codes),
              !.codes[Len(job.codes)].status = "processing", !.pc = "item"]

\* Lines 369-387: processJob up to its first await, reached synchronously
\* from processQueue
startJob(job) ==
  [job EXCEPT !.status = JobStatus.PROCESSING, !.startedAt = TRUE,
              !.i = 1, !.codes[1].status = "processing", !.pc = "item"]

\* processQueueLoop without the activeJobs < maxConcurrent test of line 348
RECURSIVE processQueueLoopUnbounded(_)
processQueueLoopUnbounded(q) ==
  IF Len(q.jobQueue) > 0
    THEN LET jobId == Head(q.jobQueue)
             rest == [q EXCEPT !.jobQueue = Tail(q.jobQueue)]
         IN  IF q.jobs[jobId].status = JobStatus.CANCELLED
               THEN processQueueLoopUnbounded(rest)
               ELSE processQueueLoopUnbounded(
                      [rest EXCEPT !.jobs[jobId] = startJob(q.jobs[jobId]),
                                   !.activeJobs = q.activeJobs + 1])
    ELSE q

\* Lines 344-364 (the loop; the .finally callback is in jobExit).  q is
\* [jobs, jobQueue, activeJobs].
RECURSIVE processQueueLoop(_)
processQueueLoop(q) ==
  IF Len(q.jobQueue) > 0 /\ q.activeJobs < maxConcurrent
    THEN LET jobId == Head(q.jobQueue)
             rest == [q EXCEPT !.jobQueue = Tail(q.jobQueue)]
         IN  IF q.jobs[jobId].status = JobStatus.CANCELLED
               THEN processQueueLoop(rest)
               ELSE processQueueLoop(
                      [rest EXCEPT !.jobs[jobId] = startJob(q.jobs[jobId]),
                                   !.activeJobs = q.activeJobs + 1])
    ELSE q

processQueue(q, busy) == IF busy THEN q ELSE processQueueLoop(q)

\* itemDone without the completed++ of line 457
itemDoneSkipsCount(job) ==
  [job EXCEPT !.progress.percentage =
                 percentageOf(job.progress.completed, job.progress.total),
              !.result = None,
              !.pc = "delay"]

\* Lines 457-458
itemDone(job) ==
  [job EXCEPT !.progress.completed = @ + 1,
              !.progress.percentage =
                 percentageOf(job.progress.completed + 1, job.progress.total),
              !.result = None,
              !.pc = "delay"]

\* No item counted yet
NoProgress == [total |-> 0, completed |-> 0, percentage |-> 0]

\* Lines 457-458 on a job of total items: one more item is counted (the
\* first step fixes the job's total)
ItemCounted(total) ==
  /\ lastProgress.total \in {0, total}
  /\ lastProgress.completed < total
  /\ lastProgress' =
       [total |-> total, completed |-> lastProgress.completed + 1,
        percentage |-> percentageOf(lastProgress.completed + 1, total)]
  /\ UNCHANGED <<storeVars, requests, jobVars, limiterVars, lastRun,
                 lastTranslate, lastValidate, lru>>

\* Lines 450-455: the catch of one item
itemFailed(job) ==
  [job EXCEPT !.codes[job.i].status = "failed", !.progress.failed = @ + 1]

\* Lines 470-489: what processJob does after its loop
finishJob(job) ==
  LET status == IF job.progress.failed = job.progress.total
                  THEN JobStatus.FAILED ELSE JobStatus.COMPLETED
  IN  [job EXCEPT !.status = status, !.completedAt = TRUE, !.pc = "exited",
                  !.callbacks = IF job.callbackUrl THEN Append(@, status) ELSE @]

\* jobExit whose .finally callback only decrements activeJobs (no
\* processQueue() call of line 358)
jobExitNoRestart(q, jobId) ==
  [q EXCEPT !.jobs[jobId] = finishJob(q.jobs[jobId]),
            !.activeJobs = q.activeJobs - 1]

\* processJob's return and the .finally callback of processQueue
\* (lines 355-360)
jobExit(q, jobId) ==
  LET done == [q EXCEPT !.jobs[jobId] = finishJob(q.jobs[jobId]),
                        !.activeJobs = q.activeJobs - 1]
  IN  IF Len(done.jobQueue) > 0 THEN processQueue(done, FALSE) ELSE done

queueState == [jobs |-> jobs, jobQueue |-> jobQueue, activeJobs |-> activeJobs]

setQueue(q) ==
  /\ jobs' = q.jobs
  /\ jobQueue' = q.jobQueue
  /\ activeJobs' = q.activeJobs
  /\ isProcessing' = FALSE

\* Lines 322-327: what createBatchJob returns, read from the job after
\* processQueue() has run
admissionOf(job) == [status |-> job.status, progress |-> job.progress]

\* Lines 277-328
createBatchJob(codes, callbackUrl, saveResults) ==
  /\ LET jobId == Len(jobs) + 1
         q == [jobs |-> Append(jobs, newJob(codes, callbackUrl, saveResults)),
               jobQueue |-> Append(jobQueue, jobId),
               activeJobs |-> activeJobs]
         started == processQueue(q, isProcessing)
     IN  setQueue([started EXCEPT
                     !.jobs[jobId].admission =
                        Some(admissionOf(started.jobs[jobId]))])
  /\ UNCHANGED <<storeVars, requests, limiterVars, lastRun,
               lastTranslate, sideVars>>

\* Lines 389-448 up to the upsert: the source code is fetched (absent: the
\* item fails) and the workflow runs; a result to be saved goes on to the
\* upsert, any other ends the item.
ItemReturns(jobId, env) ==
  /\ jobId \in 1..Len(jobs)
  /\ jobs[jobId].pc = "item"
  /\ LET job == jobs[jobId]
         codeItem == job.codes[job.i]
         namasteCode == findNamasteCode(codeItem.code, toUpperCase(codeItem.system))
     IN  IF namasteCode = <<>>
           THEN jobs' = [jobs EXCEPT ![jobId] = itemDone(itemFailed(job))]
           ELSE LET result == workflowRuns[namasteCode[1]][env]
                    completed == [job EXCEPT !.codes[job.i].status = "completed",
                                             !.codes[job.i].result =
                                                Some([success |-> result.success]),
                                             !.progress.successful = @ + 1]
                    save == job.saveResults /\ result.success
                              /\ result.tm2Code # NULL
                              /\ findTm2Code(result.tm2Code) # <<>>
                IN  jobs' = [jobs EXCEPT ![jobId] =
                      IF save
                        THEN [completed EXCEPT
                                !.pc = "upsert",
                                !.result = Some([namasteId |-> namasteCode[1].id,
                                                 tm2Code |-> result.tm2Code,
                                                 equivalence |-> result.equivalence,
                                                 confidence |-> result.confidence,
                                                 reasoning |-> result.reasoning])]
                        ELSE itemDone(completed)]
  /\ UNCHANGED <<storeVars, requests, jobQueue, isProcessing, activeJobs,
                 limiterVars, lastRun,
               lastTranslate, sideVars>>

\* Lines 425-458: the upsert of one item returns or throws (the catch marks
\* the item failed), then the progress is updated.
ItemUpsertReturns(jobId, dbOk) ==
  /\ jobId \in 1..Len(jobs)
  /\ jobs[jobId].pc = "upsert"
  /\ LET job == jobs[jobId]
         result == job.result[1]
         key == <<result.namasteId, result.tm2Code>>
         data == [equivalence |-> result.equivalence,
                  confidence |-> result.confidence,
                  reasoning |-> result.reasoning]
     IN  IF upsertThrows(data, dbOk)
           THEN /\ jobs' = [jobs EXCEPT ![jobId] = itemDone(itemFailed(job))]
                /\ UNCHANGED storeVars
           ELSE /\ mappings' = upsert(mappings, key, data)
                /\ lastUpsert' = [lastUpsert EXCEPT ![key[1]] = written(key, data)]
                /\ jobs' = [jobs EXCEPT ![jobId] = itemDone(job)]
  /\ UNCHANGED <<requests, jobQueue, isProcessing, activeJobs, limiterVars, lastRun,
               lastTranslate, sideVars>>

\* loopContinues without the cancellation check of line 382
loopContinuesIgnoresCancel(job, i) == i <= Len(job.codes)

\* loopContinues with the for condition off by one (i < length - 1)
loopContinuesOffByOne(job, i) ==
  i < Len(job.codes) /\ job.status # JobStatus.CANCELLED

\* Lines 378-385: the for condition and the cancellation check made before
\* item i (counted from 1) is started
loopContinues(job, i) ==
  i <= Len(job.codes) /\ job.status # JobStatus.CANCELLED

\* Lines 467, 378-387 and 470-489: the 500 ms delay ends; the loop goes to
\* the next item, or ends (no item left, or the job is seen cancelled) and
\* processJob finishes.
DelayElapsed(jobId) ==
  /\ jobId \in 1..Len(jobs)
  /\ jobs[jobId].pc = "delay"
  /\ LET job == jobs[jobId]
         i == job.i + 1
     IN  IF loopContinues(job, i)
           THEN /\ jobs' = [jobs EXCEPT ![jobId] =
                       [job EXCEPT !.i = i, !.codes[i].status = "processing",
                                   !.pc = "item"]]
                /\ UNCHANGED <<jobQueue, isProcessing, activeJobs>>
           ELSE setQueue(jobExit(queueState, jobId))
  /\ UNCHANGED <<storeVars, requests, limiterVars, lastRun,
               lastTranslate, sideVars>>

\* Lines 557-569
cancelJob(jobId) ==
  /\ jobId \in 1..Len(jobs)
  /\ IF jobs[jobId].status \in {JobStatus.PENDING, JobStatus.PROCESSING}
       THEN jobs' = [jobs EXCEPT ![jobId] =
              [@ EXCEPT !.status = JobStatus.CANCELLED, !.completedAt = TRUE,
                        !.cancelled = TRUE,
                        !.cancelledAt =
                           Some([i |-> jobs[jobId].i,
                                 inFlight |->
                                   jobs[jobId].pc \in {"item", "upsert"}])]]
       ELSE UNCHANGED jobs
  /\ UNCHANGED <<storeVars, requests, jobQueue, isProcessing, activeJobs,
                 limiterVars, lastRun,
               lastTranslate, sideVars>>

\* ------------------------------------------------------------------------
\* The rate limiter (middleware/rate-limiter.js)
\* ------------------------------------------------------------------------
MaxCount == 4

\* keyGenerator: the x-forwarded-for header, or 'anonymous'
CallerKeys == {"10.0.0.1", "anonymous"}

\* rateLimitMiddleware: the limiters in use, all over the one
\* rateLimitStore and all with the same windowMs
LimiterClasses == {"mapping", "batch"}
maxRequestsOf(class) ==
  IF class = "mapping" THEN MaxRequestsMapping ELSE MaxRequestsBatch

\* The cleanup interval fires every 60000 ms and drops the buckets idle
\* for more than 60000 ms, which is also every limiter's windowMs.
SweepIntervalMs == WindowMs
SweepIdleMs == WindowMs

\* windowExpired ending the window one instant late
windowExpiredLate(data, t) == t - data.windowStart > WindowMs + 1

\* Line 41: now - data.windowStart > windowMs
windowExpired(data, t) == t - data.windowStart > WindowMs

\* Lines 39-51: the bucket after this request is counted
countRequest(store, key, t) ==
  LET data == IF key \notin DOMAIN store \/ windowExpired(store[key], t)
                THEN [count |-> 0, windowStart |-> t, lastRequest |-> t]
                ELSE store[key]
  IN  [data EXCEPT !.count = @ + 1, !.lastRequest = t]

\* limitExceeded rejecting the request that reaches the limit
limitExceededAtLimit(data, maxRequests) == data.count >= maxRequests

\* limitExceeded letting one request too many through
limitExceededLate(data, maxRequests) == data.count > maxRequests + 1

\* Line 62
limitExceeded(data, maxRequests) == data.count > maxRequests

\* Math.ceil(a / b) for a >= 0
ceilDiv(a, b) == (a + b - 1) \div b

\* remainingOf without Math.max(0, ...)
remainingOfNoFloor(data, maxRequests) == maxRequests - data.count

\* Line 54: X-RateLimit-Remaining
remainingOf(data, maxRequests) ==
  IF maxRequests - data.count > 0 THEN maxRequests - data.count ELSE 0

\* Line 55: X-RateLimit-Reset and Retry-After, in seconds (one instant of
\* the model lasts MsPerInstant ms)
resetTimeOf(data, t) ==
  ceilDiv((data.windowStart + WindowMs - t) * MsPerInstant, 1000)

NoAnswer ==
  [asked |-> FALSE, class |-> "", key |-> "", status |-> "", limit |-> 0,
   remaining |-> 0, reset |-> 0, retryAfter |-> None, replaced |-> None]

\* Lines 53-73: the headers set and the outcome, 429 or next()
answerOf(class, key, data, t) ==
  LET exceeded == limitExceeded(data, maxRequestsOf(class))
  IN  [asked |-> TRUE, class |-> class, key |-> key,
       status |-> IF exceeded THEN "429" ELSE "next",
       limit |-> maxRequestsOf(class),
       remaining |-> remainingOf(data, maxRequestsOf(class)),
       reset |-> resetTimeOf(data, t),
       retryAfter |-> IF exceeded THEN Some(resetTimeOf(data, t)) ELSE None,
       replaced |-> None]

\* The bucket found for the key had its latest request answered 429
lastWas429(key) ==
  /\ key \in DOMAIN rateLimitStore
  /\ limitExceeded(rateLimitStore[key],
                   maxRequestsOf(rateLimitStore[key].sent.class))

\* The bucket found for the key is over its window, and how it ended
replacedBucket(key) ==
  IF key \in DOMAIN rateLimitStore /\ windowExpired(rateLimitStore[key], now)
    THEN Some(lastWas429(key))
    ELSE None

\* Lines 35-73: one request through the limiter of a class; it is answered
\* 429 or passed to next().  (sent is history kept with the bucket: the
\* class and the X-RateLimit-Remaining of the caller's latest request;
\* replaced is history kept with the answer: when the request found a
\* bucket whose window was over, whether that bucket's latest request had
\* been answered 429.)
createRateLimiter(class, key) ==
  /\ key \in DOMAIN rateLimitStore => rateLimitStore[key].count < MaxCount
  /\ LET data == countRequest(rateLimitStore, key, now)
         answer == answerOf(class, key, data, now)
     IN  /\ limiterAnswer' = [answer EXCEPT !.replaced = replacedBucket(key)]
         /\ rateLimitStore' =
              [k \in DOMAIN rateLimitStore \cup {key} |->
                 IF k = key
                   THEN [count |-> data.count, windowStart |-> data.windowStart,
                         lastRequest |-> data.lastRequest,
                         sent |-> [class |-> class,
                                   remaining |-> answer.remaining]]
                   ELSE rateLimitStore[k]]
         /\ forwarded' =
              IF limitExceeded(data, maxRequestsOf(class))
                THEN forwarded
                ELSE [forwarded EXCEPT ![class][key] = Append(@, now)]
  /\ UNCHANGED <<now, storeVars, requests, jobVars, lastRun,
               lastTranslate, sideVars>>

\* Lines 13-20: the cleanup interval
Sweep ==
  /\ now > 0
  /\ now % SweepIntervalMs = 0
  /\ rateLimitStore' =
       [k \in { k \in DOMAIN rateLimitStore :
                  ~(now - rateLimitStore[k].lastRequest > SweepIdleMs) } |->
          rateLimitStore[k]]
  /\ limiterAnswer' = NoAnswer
  /\ UNCHANGED <<now, forwarded, storeVars, requests, jobVars, lastRun,
               lastTranslate, sideVars>>

\* Time passes; the history keeps the forwarded requests of the last
\* WindowMs + 1 instants.
Tick ==
  /\ now < MaxTime
  /\ now' = now + 1
  /\ forwarded' =
       [c \in LimiterClasses |-> [k \in CallerKeys |->
          SelectSeq(forwarded[c][k], LAMBDA t : t >= now + 1 - WindowMs)]]
  /\ limiterAnswer' = NoAnswer
  /\ UNCHANGED <<rateLimitStore, storeVars, requests, jobVars, lastRun,
               lastTranslate, sideVars>>

\* ------------------------------------------------------------------------
\* The LRU cache (middleware/cache.js)
\* ------------------------------------------------------------------------
CacheKeys == {"k1", "k2", "k3"}
CacheValues == {"a", "b"}

NoCacheCall == [op |-> "", key |-> "", returned |-> None]

\* Lines 315-320: new LRUCache(maxSize, ttlMs).  entries is the Map, in its
\* insertion order (oldest first); gets, used and last are history: the
\* number of get calls, the keys held in the order of their latest use (a
\* get that hit or a set, least recent first), and the latest call with
\* what it returned (get: the value or null; delete: true or false).
NewCache ==
  [entries |-> <<>>,
   stats |-> [hits |-> 0, misses |-> 0, sets |-> 0, evictions |-> 0],
   gets |-> 0, used |-> <<>>, last |-> NoCacheCall]

cacheKeys(entries) == { entries[i].key : i \in 1..Len(entries) }
withoutKey(entries, key) == SelectSeq(entries, LAMBDA e : e.key # key)
itemOf(entries, key) ==
  entries[CHOOSE i \in 1..Len(entries) : entries[i].key = key]
touch(used, key) == Append(SelectSeq(used, LAMBDA k : k # key), key)

\* Map.prototype.set: a key already held keeps its place, a new one goes to
\* the end
mapSet(entries, item) ==
  IF item.key \in cacheKeys(entries)
    THEN [i \in 1..Len(entries) |->
            IF entries[i].key = item.key THEN item ELSE entries[i]]
    ELSE Append(entries, item)

\* Line 329: Date.now() > item.expiresAt
isExpired(item, t) == t > item.expiresAt

cacheVarsUnchanged ==
  UNCHANGED <<storeVars, requests, jobVars, limiterVars, lastRun,
              lastTranslate, lastValidate, lastProgress>>

\* Lines 322-340
CacheGet(key) ==
  /\ lru.gets + lru.stats.sets < MaxCacheCalls
  /\ lru' =
       IF key \notin cacheKeys(lru.entries)
         THEN [lru EXCEPT !.stats.misses = @ + 1, !.gets = @ + 1,
                          !.last = [op |-> "get", key |-> key,
                                    returned |-> None]]
       ELSE IF isExpired(itemOf(lru.entries, key), now)
         THEN [lru EXCEPT !.entries = withoutKey(@, key),
                          !.used = SelectSeq(@, LAMBDA k : k # key),
                          !.stats.misses = @ + 1, !.gets = @ + 1,
                          !.last = [op |-> "get", key |-> key,
                                    returned |-> None]]
       ELSE [lru EXCEPT !.entries = Append(withoutKey(@, key),
                                           itemOf(lru.entries, key)),
                        !.used = touch(@, key),
                        !.stats.hits = @ + 1, !.gets = @ + 1,
                        !.last = [op |-> "get", key |-> key,
                                  returned |->
                                    Some(itemOf(lru.entries, key).value)]]
  /\ cacheVarsUnchanged

\* evictOldest leaving the cache as it is
evictOldestNever(cache) == cache

\* Lines 344-348: at capacity the first key of the Map is deleted
evictOldest(cache) ==
  IF Len(cache.entries) >= CacheMaxSize
    THEN [cache EXCEPT !.entries = Tail(@),
                       !.used = SelectSeq(@, LAMBDA k :
                                            k # Head(cache.entries).key),
                       !.stats.evictions = @ + 1]
    ELSE cache

\* Lines 342-355, with the default ttlMs
CacheSet(key, value) ==
  /\ lru.gets + lru.stats.sets < MaxCacheCalls
  /\ LET evicted == evictOldest(lru)
     IN  lru' = [evicted EXCEPT
                   !.entries = mapSet(@, [key |-> key, value |-> value,
                                          expiresAt |-> now + CacheTtlMs]),
                   !.used = touch(@, key),
                   !.stats.sets = @ + 1,
                   !.last = [op |-> "set", key |-> key, returned |-> None]]
  /\ cacheVarsUnchanged

\* Lines 357-359
CacheDelete(key) ==
  /\ lru' = [lru EXCEPT
               !.entries = withoutKey(@, key),
               !.used = SelectSeq(@, LAMBDA k : k # key),
               !.last = [op |-> "delete", key |-> key,
                         returned |-> Some(key \in cacheKeys(lru.entries))]]
  /\ cacheVarsUnchanged

\* Lines 361-363
CacheClear ==
  /\ lru' = [lru EXCEPT !.entries = <<>>, !.used = <<>>,
                        !.last = [op |-> "clear", key |-> "",
                                  returned |-> None]]
  /\ cacheVarsUnchanged

\* ------------------------------------------------------------------------
\* A direct call of the workflow, with its inputs and outputs kept
\* ------------------------------------------------------------------------
NoRun ==
  [ran |-> FALSE, namasteId |-> NULL,
   env |-> CHOOSE e \in AllWorkflowEnvs : TRUE,
   tm2Candidates |-> <<>>, result |-> mapNamasteToTm2(namasteById("n1"),
                                         CHOOSE e \in AllWorkflowEnvs : TRUE)]

CallMapNamasteToTm2(namasteCode, env) ==
  /\ lastRun' = [ran |-> TRUE, namasteId |-> namasteCode.id, env |-> env,
                 tm2Candidates |->
                   createMappingWorkflow(namasteCode, env).tm2Candidates,
                 result |-> mapNamasteToTm2(namasteCode, env)]
  /\ UNCHANGED <<storeVars, requests, jobVars, limiterVars, lastTranslate, sideVars>>

\* ------------------------------------------------------------------------
\* Specifications
\* ------------------------------------------------------------------------
Init ==
  /\ mappings \in SeedStores
  /\ requests = [r \in RequestIds |-> IdleRequest]
  /\ jobs = <<>>
  /\ jobQueue = <<>>
  /\ isProcessing = FALSE
  /\ activeJobs = 0
  /\ lastUpsert = [n \in NamasteIds |-> None]
  /\ rateLimitStore = <<>>
  /\ now = 0
  /\ forwarded = [c \in LimiterClasses |-> [k \in CallerKeys |-> <<>>]]
  /\ lastRun = NoRun
  /\ lastTranslate = NoTranslate
  /\ limiterAnswer = NoAnswer
  /\ lastValidate = NoValidate
  /\ lru = NewCache
  /\ lastProgress = NoProgress

\* The mapping service: interactive requests and batch jobs over the store
Next ==
  \/ \E r \in RequestIds, code \in RequestCodes, system \in RequestSystems :
       PostMapping(r, code, system)
  \/ \E r \in RequestIds, env \in WorkflowEnvs, ms \in PipelineDurations :
       PipelineReturns(r, env, ms)
  \/ \E r \in RequestIds, dbOk \in BOOLEAN : UpsertReturns(r, dbOk)
  \/ \E codes \in SeqUpTo(BatchItem, MaxItems), callbackUrl \in BOOLEAN,
        saveResults \in BOOLEAN :
       Len(jobs) < MaxJobs /\ createBatchJob(codes, callbackUrl, saveResults)
  \/ \E jobId \in 1..MaxJobs, env \in WorkflowEnvs : ItemReturns(jobId, env)
  \/ \E jobId \in 1..MaxJobs, dbOk \in BOOLEAN : ItemUpsertReturns(jobId, dbOk)
  \/ \E jobId \in 1..MaxJobs : DelayElapsed(jobId)
  \/ \E jobId \in 1..MaxJobs : cancelJob(jobId)

Spec == Init /\ [][Next]_vars

\* The two interactive endpoints over the store
NextHandler ==
  \/ \E r \in RequestIds, code \in RequestCodes, system \in RequestSystems :
       PostMapping(r, code, system)
  \/ \E r \in RequestIds, env \in WorkflowEnvs, ms \in PipelineDurations :
       PipelineReturns(r, env, ms)
  \/ \E r \in RequestIds, dbOk \in BOOLEAN : UpsertReturns(r, dbOk)
  \/ \E code \in RequestCodes, system \in RequestSystems :
       Translate(code, system)

SpecHandler == Init /\ [][NextHandler]_vars

\* The job queue with more jobs than worker slots.  Every run finds one
\* candidate above the threshold and every upsert succeeds; the jobs that
\* fill the worker slots carry one stored code, the later ones up to
\* MaxQueueItems codes; every job has a callbackUrl and saves its results.
QueueEnvs ==
  { env : env \in { e \in WorkflowEnvs :
                     /\ e.invokeOk /\ e.embedOk /\ ~e.search.throws
                     /\ e.search.keywords = 1
                     /\ e.llm = LlmThrow } }

QueueBodies ==
  IF Len(jobs) < maxConcurrent
    THEN { <<[code |-> "AAA-1", system |-> "ayurveda"]>> }
    ELSE SeqUpTo(BatchItem, MaxQueueItems)

NextQueue ==
  \/ \E codes \in QueueBodies :
       Len(jobs) < MaxQueueJobs /\ createBatchJob(codes, TRUE, TRUE)
  \/ \E jobId \in 1..MaxQueueJobs, env \in QueueEnvs : ItemReturns(jobId, env)
  \/ \E jobId \in 1..MaxQueueJobs : ItemUpsertReturns(jobId, TRUE)
  \/ \E jobId \in 1..MaxQueueJobs : DelayElapsed(jobId)
  \/ \E jobId \in 1..MaxQueueJobs : cancelJob(jobId)

SpecQueue == Init /\ [][NextQueue]_vars

\* Every pending await of processJob is eventually resumed: the source
\* lookup and the workflow return (lines 391-403), the upsert returns
\* (line 425), the 500 ms timer fires (line 467).  Admissions and
\* cancellations happen whenever callers make them, or never.
QueueFairness ==
  \A jobId \in 1..MaxQueueJobs :
    /\ WF_vars(\E env \in QueueEnvs : ItemReturns(jobId, env))
    /\ WF_vars(ItemUpsertReturns(jobId, TRUE))
    /\ WF_vars(DelayElapsed(jobId))

SpecQueueFair == Init /\ [][NextQueue]_vars /\ QueueFairness

\* Reviewers validating the rows the interactive endpoint stores
NextValidate ==
  \/ \E r \in RequestIds, code \in RequestCodes, system \in RequestSystems :
       PostMapping(r, code, system)
  \/ \E r \in RequestIds, env \in QueueEnvs, ms \in {1000} :
       PipelineReturns(r, env, ms)
  \/ \E r \in RequestIds : UpsertReturns(r, TRUE)
  \/ \E id \in ValidateIds, status \in ValidateStatuses,
        validatedBy \in ValidatedByInputs :
       PatchValidate(id, status, validatedBy)

SpecValidate == Init /\ [][NextValidate]_vars

\* The progress arithmetic alone, over every size of job the batch routes
\* accept
NextProgress == \E total \in 1..MaxTotal : ItemCounted(total)

SpecProgress == Init /\ [][NextProgress]_vars

\* One LRU cache and its clock
NextCache ==
  \/ \E key \in CacheKeys : CacheGet(key)
  \/ \E key \in CacheKeys, value \in CacheValues : CacheSet(key, value)
  \/ \E key \in CacheKeys : CacheDelete(key)
  \/ CacheClear
  \/ Tick

SpecCache == Init /\ [][NextCache]_vars

\* The rate limiter alone
NextLimiter ==
  \/ \E class \in LimiterClasses, key \in CallerKeys :
       createRateLimiter(class, key)
  \/ Sweep
  \/ Tick

SpecLimiter == Init /\ [][NextLimiter]_vars

\* The workflow alone, over every environment
NextWorkflow ==
  \E namasteCode \in NamasteCodes, env \in AllWorkflowEnvs :
    CallMapNamasteToTm2(namasteCode, env)

SpecWorkflow == Init /\ [][NextWorkflow]_vars

\* ------------------------------------------------------------------------
\* Claims
\* ------------------------------------------------------------------------
JobIds == 1..Len(jobs)
Terminal == {JobStatus.COMPLETED, JobStatus.FAILED}

\* C1: once cancelJob has succeeded on a job, the job's status is CANCELLED
\* in every later state, also after its worker loop has exited.
C1_CancelledStays ==
  \A j \in JobIds : jobs[j].cancelled => jobs[j].status = JobStatus.CANCELLED

forwardsSince(class, key, t) ==
  Len(SelectSeq(forwarded[class][key], LAMBDA u : u >= t))

\* ... in the interval of length WindowMs that ends now: (now - WindowMs, now]
slidingForwards(class, key) == forwardsSince(class, key, now + 1 - WindowMs)

\* ... in the key's current window
windowForwards(class, key) ==
  forwardsSince(class, key, rateLimitStore[key].windowStart)

\* C4 as stated: in any interval of length window_ms, aligned with a window
\* start or not, a limiter forwards at most max_requests requests of a key.
C4_Original ==
  \A class \in LimiterClasses, key \in CallerKeys :
    slidingForwards(class, key) <= maxRequestsOf(class)

\* C4 amended: within one window of a key (from its window start on) a
\* limiter forwards at most max_requests requests of the key; an interval of
\* length window_ms that straddles two windows holds at most twice as many.
C4_FixedWindow ==
  \A class \in LimiterClasses, key \in CallerKeys :
    /\ key \in DOMAIN rateLimitStore =>
         windowForwards(class, key) <= maxRequestsOf(class)
    /\ slidingForwards(class, key) <= 2 * maxRequestsOf(class)

C4_Witness ==
  \E class \in LimiterClasses, key \in DOMAIN rateLimitStore :
    /\ windowForwards(class, key) = maxRequestsOf(class)
    /\ slidingForwards(class, key) > maxRequestsOf(class)

\* The codes of the candidates the prompt shows the LLM: the first
\* min(3, |candidates|)
promptCodes(tm2Candidates) ==
  { tm2Candidates[i].code :
      i \in 1..(IF Len(tm2Candidates) < 3 THEN Len(tm2Candidates) ELSE 3) }

hasError(errors, e) == \E i \in 1..Len(errors) : errors[i] = e
visitedNode(run, node) ==
  \E i \in 1..Len(run.result.visited) : run.result.visited[i] = node

\* C5: when the LLM returns a selected code that is not one of the
\* candidates passed to it, the run takes the fallback: target
\* candidates[0], confidence 0.5, INEXACT, a reasoning with 'AI validation
\* failed' and an error in errors[].
C5_InvalidCodeFallsBack ==
  ( /\ lastRun.ran
    /\ visitedNode(lastRun, "validate")
    /\ lastRun.env.llm.kind = "json"
    /\ lastRun.env.llm.selectedCode # None
    /\ lastRun.env.llm.selectedCode[1] \notin promptCodes(lastRun.tm2Candidates) )
  => /\ lastRun.result.tm2Code = lastRun.tm2Candidates[1].code
     /\ lastRun.result.confidence = FallbackConfidence
     /\ lastRun.result.equivalence = "INEXACT"
     /\ lastRun.result.reasoning = "AI validation failed"
     /\ hasError(lastRun.result.errors, "AI validation error")

\* C6: every persisted mapping row has a confidence in [0, 1], an
\* equivalence of the enum and a target, whatever the adjudicator returns.
C6_RowsWellFormed ==
  \A k \in DOMAIN mappings :
    /\ mappings[k].confidence >= 0
    /\ mappings[k].confidence <= 100
    /\ mappings[k].equivalence \in EquivalenceEnum
    /\ k[2] \in Tm2Codes

\* C7: every POST /mapping answer that carries a mapping with a null target
\* has equivalence UNMATCHED and confidence 0.
C7_NullTargetUnmatched ==
  \A r \in RequestIds :
    (requests[r].response.status = 200 /\ requests[r].response.tm2Code = NULL)
      => /\ requests[r].response.equivalence = "UNMATCHED"
         /\ requests[r].response.confidence = 0

\* C8: a request whose workflow run took longer than the 25 s deadline is
\* answered 504 and writes no mapping row, before or after the answer.
C8_DeadlineAnswers504 ==
  \A r \in RequestIds :
    requests[r].pipelineMs > DeadlineMs =>
      /\ requests[r].pc # "upsert"
      /\ requests[r].response.status = 504
      /\ ~requests[r].wrote

\* C9: no step changes a row whose mapping_source is HUMAN_VALIDATED (the
\* model's rows carry no updated_at, so the whole row is kept).
C9_HumanRowKept ==
  [][\A k \in DOMAIN mappings :
       mappings[k].mappingSource = "HUMAN_VALIDATED" =>
         (k \in DOMAIN mappings' /\ mappings'[k] = mappings[k])]_vars

cachedAfterUpsert(r) ==
  /\ requests[r].response.source = "cached"
  /\ requests[r].lastAtRead # None

visitedBy(r, node) ==
  \E i \in 1..Len(requests[r].visited) : requests[r].visited[i] = node

\* The decision of a $translate answer: its first match, if any
firstMatch == lastTranslate.matches[1]

\* C11: for the same {code, system} and the same stored rows of the source,
\* $translate and POST /mapping give the same decision: both no target, or
\* the same target, equivalence and confidence.
C11_SameDecision ==
  \A r \in RequestIds :
    ( /\ requests[r].pc = "done"
      /\ requests[r].response.status = 200
      /\ lastTranslate.asked
      /\ lastTranslate.code = requests[r].code
      /\ lastTranslate.system = requests[r].system
      /\ lastTranslate.rows = requests[r].rowsAtRead )
    => IF requests[r].response.tm2Code = NULL
         THEN ~lastTranslate.result
         ELSE /\ lastTranslate.result
              /\ firstMatch.tm2Code = requests[r].response.tm2Code
              /\ toUpperCase(firstMatch.equivalence)
                   = toUpperCase(requests[r].response.equivalence)
              /\ firstMatch.confidence = requests[r].response.confidence

\* A request that found a stored mapping of its source when it arrived
foundMapping(r) ==
  requests[r].pc # "idle" /\ DOMAIN requests[r].rowsAtRead # {}

\* C12: a request that finds a mapping of its (system, code) stored is
\* answered 200 with source 'cached' and a stored row of the source, and
\* for it no workflow node runs (no embedder, no LLM) and no row is written.
C12_CachedSkipsPipeline ==
  \A r \in RequestIds :
    foundMapping(r) =>
      /\ requests[r].pc = "done"
      /\ requests[r].response.status = 200
      /\ requests[r].response.source = "cached"
      /\ \E k \in DOMAIN requests[r].rowsAtRead :
           /\ requests[r].response.tm2Code = k[2]
           /\ requests[r].response.equivalence
                = requests[r].rowsAtRead[k].equivalence
           /\ requests[r].response.confidence
                = requests[r].rowsAtRead[k].confidence
      /\ requests[r].visited = <<>>
      /\ requests[r].pipelineMs = 0
      /\ ~requests[r].wrote
      /\ ~requests[r].writeFailed

C12_Witness ==
  \E r \in RequestIds :
    /\ foundMapping(r)
    /\ requests[r].response.source = "cached"
    /\ requests[r].rowsAtRead[<<requests[r].namasteId,
                                requests[r].response.tm2Code>>].mappingSource
         = "AI_VALIDATED"

\* A request whose workflow run has returned with no candidate
ranWithoutCandidates(r) ==
  requests[r].pipelineMs > 0 /\ requests[r].candidates = 0

\* C13: a run whose search returns no candidate ends the request with a
\* null target, UNMATCHED and confidence 0 without visiting the LLM node and
\* without a store write; the step that ends it leaves the store as it was,
\* and the same request sent again, the source still having no stored row,
\* starts the workflow again.
C13_NoCandidates ==
  /\ [](\A r \in RequestIds :
          ranWithoutCandidates(r) =>
            /\ requests[r].pc = "done"
            /\ requests[r].response.status = 200
            /\ requests[r].response.source = "ai_workflow"
            /\ requests[r].response.tm2Code = NULL
            /\ requests[r].response.equivalence = "UNMATCHED"
            /\ requests[r].response.confidence = 0
            /\ ~visitedBy(r, "validate")
            /\ ~requests[r].wrote)
  /\ [][\A r \in RequestIds :
          /\ (~ranWithoutCandidates(r) /\ ranWithoutCandidates(r)')
               => mappings' = mappings
          /\ ( /\ ranWithoutCandidates(r)
               /\ requests'[r] # requests[r]
               /\ requests'[r].code = requests[r].code
               /\ requests'[r].system = requests[r].system
               /\ rowsOf(mappings, requests[r].code,
                         toUpperCase(requests[r].system)) = {} )
               => requests'[r].pc = "pipeline"]_vars

C13_Witness ==
  \E r \in RequestIds :
    /\ ranWithoutCandidates(r)
    /\ requests[r].pc = "done"
    /\ visitedBy(r, "search")
    /\ rowsOf(mappings, requests[r].code, toUpperCase(requests[r].system)) = {}

\* C16: a request whose store write failed after its run selected a target
\* is still answered 200 with that mapping and source 'ai_workflow'.
C16_WriteFailureSwallowed ==
  \A r \in RequestIds :
    requests[r].writeFailed =>
      /\ requests[r].response.status = 200
      /\ requests[r].response.source = "ai_workflow"
      /\ requests[r].response.tm2Code # NULL

topScore(run) == run.tm2Candidates[1].score
maxOf(a, b) == IF a >= b THEN a ELSE b

\* A direct run of the workflow that returned with candidates found
ranWithCandidates ==
  lastRun.ran /\ lastRun.env.invokeOk /\ Len(lastRun.tm2Candidates) > 0

C15_LlmFailureFallsBack ==
  ( /\ lastRun.ran
    /\ lastRun.env.invokeOk
    /\ visitedNode(lastRun, "validate")
    /\ lastRun.env.llm.kind \in {"throw", "nojson"} )
  => /\ lastRun.result.success
     /\ lastRun.result.tm2Code = lastRun.tm2Candidates[1].code
     /\ lastRun.result.confidence = 50
     /\ lastRun.result.equivalence = "INEXACT"
     /\ hasError(lastRun.result.errors, "AI validation error")

C15_Witness ==
  /\ lastRun.ran
  /\ visitedNode(lastRun, "validate")
  /\ lastRun.env.llm.kind = "nojson"
  /\ lastRun.result.tm2Code = "SK00"
  /\ lastRun.result.confidence = 50

\* The bucket of the key of the limiter step just taken, and the time left
\* in its window, in ms
answeredBucket == rateLimitStore[limiterAnswer.key]
msLeft == (answeredBucket.windowStart + WindowMs - now) * MsPerInstant
lastForwarded(class, key) ==
  forwarded[class][key][Len(forwarded[class][key])]

\* C17: a request through a limiter {window_ms, max N} that is among the
\* first N of its caller key in the key's window is forwarded; every further
\* one in that window is answered 429 and not forwarded, with
\* X-RateLimit-Remaining 0 and Retry-After the whole seconds until the
\* window ends.
C17_LimitAnswers ==
  /\ [](limiterAnswer.asked =>
          IF answeredBucket.count <= maxRequestsOf(limiterAnswer.class)
            THEN /\ limiterAnswer.status = "next"
                 /\ limiterAnswer.retryAfter = None
                 /\ limiterAnswer.remaining
                      = maxRequestsOf(limiterAnswer.class) - answeredBucket.count
            ELSE /\ limiterAnswer.status = "429"
                 /\ limiterAnswer.remaining = 0
                 /\ limiterAnswer.retryAfter # None
                 /\ limiterAnswer.retryAfter[1] * 1000 >= msLeft
                 /\ (limiterAnswer.retryAfter[1] - 1) * 1000 < msLeft)
  /\ [][limiterAnswer'.asked =>
          IF limiterAnswer'.status = "429"
            THEN forwarded' = forwarded
            ELSE forwarded' =
                   [forwarded EXCEPT
                      ![limiterAnswer'.class][limiterAnswer'.key] =
                         Append(@, now)]]_vars

C17_Witness ==
  /\ limiterAnswer.asked
  /\ limiterAnswer.class = "mapping"
  /\ limiterAnswer.status = "429"
  /\ answeredBucket.count = MaxRequestsMapping + 1
  /\ answeredBucket.windowStart + 1 = now
  /\ limiterAnswer.retryAfter = Some(1)
  /\ Len(forwarded["mapping"][limiterAnswer.key]) = MaxRequestsMapping

\* C18: every status change of a job follows PENDING -> PROCESSING ->
\* {COMPLETED, FAILED, CANCELLED} or PENDING -> CANCELLED; no job leaves
\* COMPLETED, FAILED or CANCELLED.
C18_StatusDag ==
  [][\A j \in JobIds :
       \/ jobs'[j].status = jobs[j].status
       \/ /\ jobs[j].status = JobStatus.PENDING
          /\ jobs'[j].status \in {JobStatus.PROCESSING, JobStatus.CANCELLED}
       \/ /\ jobs[j].status = JobStatus.PROCESSING
          /\ jobs'[j].status \in {JobStatus.COMPLETED, JobStatus.FAILED,
                                  JobStatus.CANCELLED}]_vars

\* C19: once cancelJob has succeeded on a job, no item of the job that had
\* not started then is ever started (run or written): the job stays at the
\* item it was at, later items stay pending, and only if that item was in
\* flight may it still be run and written.
C19_CancelStopsItems ==
  \A j \in JobIds :
    jobs[j].cancelled =>
      /\ jobs[j].i = jobs[j].cancelledAt[1].i
      /\ \A k \in 1..Len(jobs[j].codes) :
           k > jobs[j].cancelledAt[1].i => jobs[j].codes[k].status = "pending"
      /\ ~jobs[j].cancelledAt[1].inFlight =>
           jobs[j].pc \in {"queued", "delay", "exited"}

C19_Witness ==
  \E j \in JobIds :
    /\ jobs[j].cancelled
    /\ jobs[j].cancelledAt[1] = [i |-> 1, inFlight |-> TRUE]
    /\ Len(jobs[j].codes) = 2
    /\ jobs[j].pc = "exited"
    /\ jobs[j].codes[1].status = "completed"
    /\ jobs[j].codes[2].status = "pending"

\* A job cancelled while it waited, taken from the queue and skipped
C19_SkippedInQueue ==
  \E q \in JobIds :
    /\ jobs[q].cancelled
    /\ jobs[q].cancelledAt[1] = [i |-> 0, inFlight |-> FALSE]
    /\ jobs[q].pc = "queued"
    /\ jobQueue = <<>>

\* C20: the answer of createBatchJob reports status PENDING and progress
\* {completed 0, successful 0, failed 0, percentage 0}, a worker slot being
\* free at admission or not.
C20_AdmittedPending ==
  \A j \in JobIds :
    /\ jobs[j].admission # None
    /\ jobs[j].admission[1].status = JobStatus.PENDING
    /\ jobs[j].admission[1].progress.completed = 0
    /\ jobs[j].admission[1].progress.successful = 0
    /\ jobs[j].admission[1].progress.failed = 0
    /\ jobs[j].admission[1].progress.percentage = 0

\* The jobs whose processJob call has started and not returned
runningJobs == { j \in JobIds : jobs[j].pc \in {"item", "upsert", "delay"} }

\* C21: at every moment at most maxConcurrent (3) jobs are being processed:
\* activeJobs never exceeds 3, it counts exactly the jobs whose processJob
\* call is running, and at most 3 jobs have the status PROCESSING.
C21_AtMostThreeActive ==
  /\ activeJobs <= maxConcurrent
  /\ Cardinality(runningJobs) = activeJobs
  /\ Cardinality({ j \in JobIds : jobs[j].status = JobStatus.PROCESSING })
       <= maxConcurrent

\* All three slots are taken and a fourth job waits in the queue
C21_Witness ==
  /\ activeJobs = maxConcurrent
  /\ Len(jobQueue) > 0
  /\ \E j \in JobIds : jobs[j].status = JobStatus.PENDING /\ jobs[j].pc = "queued"

\* Item k of a job has finished: its try/catch has ended and line 457 has
\* counted it
itemFinished(job, k) ==
  /\ job.codes[k].status \in {"completed", "failed"}
  /\ job.progress.completed >= k

\* Item k of a job has been started (line 387)
itemStarted(job, k) == job.codes[k].status # "pending"

\* C22: within one job the items are processed one at a time in submission
\* order: an item that has been started has every earlier item finished
\* (completed or failed, and counted), at most one item is unfinished among
\* the started ones, and an item is started only in a step in which the item
\* before it is already finished; other jobs running at the same time do not
\* change this.
C22_ItemsInOrder ==
  /\ [](\A j \in JobIds : \A k \in 1..Len(jobs[j].codes) :
          itemStarted(jobs[j], k) =>
            /\ \A h \in 1..(k - 1) : itemFinished(jobs[j], h)
            /\ k <= jobs[j].i)
  /\ [][\A j \in JobIds : \A k \in 1..Len(jobs[j].codes) :
          (~itemStarted(jobs[j], k) /\ itemStarted(jobs'[j], k)) =>
            /\ k = jobs[j].progress.completed + 1
            /\ \A h \in 1..(k - 1) : itemFinished(jobs[j], h)
            /\ jobs'[j].i = k]_vars

\* The second item of a job is in flight after its first item finished,
\* while another job has an item in flight
C22_Witness ==
  \E j \in JobIds, o \in JobIds :
    /\ o # j
    /\ jobs[o].pc \in {"item", "upsert"}
    /\ Len(jobs[j].codes) >= 2
    /\ jobs[j].pc \in {"item", "upsert"}
    /\ jobs[j].i = 2
    /\ itemFinished(jobs[j], 1)

\* Job j is waiting in jobQueue
inQueue(j) == \E k \in 1..Len(jobQueue) : jobQueue[k] = j

\* Nothing more will happen to job j: its processJob call has returned, or
\* it was cancelled while waiting and processQueue has dropped it
atRest(j) ==
  \/ jobs[j].pc = "exited"
  \/ jobs[j].pc = "queued" /\ jobs[j].status = JobStatus.CANCELLED /\ ~inQueue(j)

\* C23: a job with a callbackUrl that has reached a terminal status and has
\* nothing left to do (also one cancelled while still PENDING) has had
\* exactly one callback POST, carrying the job's final status.
C23_OneCallback ==
  \A j \in JobIds :
    (jobs[j].callbackUrl /\ atRest(j)) => jobs[j].callbacks = <<jobs[j].status>>

\* The upserts awaited in a state (part_007 114-135, namaste-loader.js
\* 425-446): the key and the data each will write
pendingUpserts ==
  { [key |-> <<requests[r].namasteId, requests[r].result[1].tm2Code>>,
     equivalence |-> toUpperCase(requests[r].result[1].equivalence),
     confidence |-> requests[r].result[1].confidence,
     reasoning |-> requests[r].result[1].reasoning] :
      r \in { q \in RequestIds : requests[q].pc = "upsert" } }
  \cup
  { [key |-> <<jobs[j].result[1].namasteId, jobs[j].result[1].tm2Code>>,
     equivalence |-> jobs[j].result[1].equivalence,
     confidence |-> jobs[j].result[1].confidence,
     reasoning |-> jobs[j].result[1].reasoning] :
      j \in { q \in JobIds : jobs[q].pc = "upsert" } }

\* C24: whatever the interleaving of the handler's and a batch worker's
\* upserts for one source, the store holds one row per (source, target)
\* pair, every change of the store is the write of one row by one awaited
\* upsert, whose equivalence, confidence and reasoning the row then carries
\* together (no mixture of two results), and the row last written for a
\* source carries what the last upsert wrote.
C24_LastWriterWins ==
  /\ [](\A n \in NamasteIds :
          lastUpsert[n] # None =>
            /\ <<n, lastUpsert[n][1].tm2Code>> \in DOMAIN mappings
            /\ mappings[<<n, lastUpsert[n][1].tm2Code>>].equivalence
                 = lastUpsert[n][1].equivalence
            /\ mappings[<<n, lastUpsert[n][1].tm2Code>>].confidence
                 = lastUpsert[n][1].confidence)
  /\ [][mappings' # mappings =>
          \E u \in pendingUpserts :
            /\ DOMAIN mappings' = DOMAIN mappings \cup {u.key}
            /\ mappings'[u.key].equivalence = u.equivalence
            /\ mappings'[u.key].confidence = u.confidence
            /\ mappings'[u.key].reasoning = u.reasoning
            /\ \A k \in DOMAIN mappings : k # u.key => mappings'[k] = mappings[k]]_vars

\* A request that missed the cache awaits its upsert of a pair that a batch
\* worker has written meanwhile with another result
C24_Witness ==
  \E r \in RequestIds, j \in JobIds :
    /\ requests[r].pc = "upsert"
    /\ jobs[j].pc = "delay"
    /\ LET key == <<requests[r].namasteId, requests[r].result[1].tm2Code>>
       IN  /\ key \notin DOMAIN requests[r].rowsAtRead
           /\ key \in DOMAIN mappings
           /\ lastUpsert[key[1]] # None
           /\ lastUpsert[key[1]][1].tm2Code = key[2]
           /\ mappings[key].reasoning # requests[r].result[1].reasoning
           /\ mappings[key].confidence # requests[r].result[1].confidence

\* C25: an upsert onto an existing (source, target) row leaves the row's
\* validationStatus, validatedBy, validatedAt and createdAt as they were,
\* for a row a reviewer approved as for a row still pending.
C25_ValidationFieldsKept ==
  [][\A k \in DOMAIN mappings :
       /\ k \in DOMAIN mappings'
       /\ mappings'[k].validationStatus = mappings[k].validationStatus
       /\ mappings'[k].validatedBy = mappings[k].validatedBy
       /\ mappings'[k].validatedAt = mappings[k].validatedAt
       /\ mappings'[k].createdAt = mappings[k].createdAt]_vars

\* A row a reviewer approved has been written over by an upsert and still
\* carries the reviewer's validation and its creation time
C25_Witness ==
  \E k \in DOMAIN mappings :
    /\ mappings[k].mappingSource = "AI_VALIDATED"
    /\ mappings[k].validationStatus = HumanRow.validationStatus
    /\ mappings[k].validatedBy = HumanRow.validatedBy
    /\ mappings[k].validatedAt = HumanRow.validatedAt
    /\ mappings[k].createdAt = HumanRow.createdAt
    /\ lastUpsert[k[1]] # None
    /\ lastUpsert[k[1]][1].tm2Code = k[2]

\* Item k of a job errored: its source code was absent or a write failed
\* (the catch at 450-455), or its workflow run failed (success: false)
itemErrored(job, k) ==
  \/ job.codes[k].status = "failed"
  \/ job.codes[k].result # None /\ ~job.codes[k].result[1].success

\* C26: a job that was not cancelled and has ended is COMPLETED exactly when
\* at least one of its items succeeded, and FAILED exactly when every item
\* errored (source code absent, or workflow run failed).
C26_StatusFromItems ==
  \A j \in JobIds :
    (jobs[j].pc = "exited" /\ ~jobs[j].cancelled) =>
      /\ jobs[j].status = JobStatus.COMPLETED
           <=> (\E k \in 1..Len(jobs[j].codes) : ~itemErrored(jobs[j], k))
      /\ jobs[j].status = JobStatus.FAILED
           <=> (\A k \in 1..Len(jobs[j].codes) : itemErrored(jobs[j], k))

\* The failures of one run of the workflow (lastRun): the source has no
\* text, the embedder rejects, a search query rejects, the LLM call made by
\* the validate node throws or answers no JSON object
emptyText == filterBoolean(namasteById(lastRun.namasteId).fields) = <<>>
embedderFailed == ~emptyText /\ ~lastRun.env.embedOk
searchFailed == lastRun.env.search.throws
llmFailed ==
  /\ visitedNode(lastRun, "validate")
  /\ Len(lastRun.tm2Candidates) > 0
  /\ lastRun.env.llm.kind # "json"

\* C27: whatever the combination of empty text, embedder failure, search
\* failure and LLM failure, a run of the workflow visits preprocess, embed
\* and search in that order, then at most one of high_confidence and
\* validate, returns a result (success: true) instead of throwing, and has
\* each failure that happened in the errors of the result.
C27_RunOrderAndErrors ==
  (lastRun.ran /\ lastRun.env.invokeOk) =>
    LET visited == lastRun.result.visited
        errors == lastRun.result.errors
    IN  /\ Len(visited) \in {3, 4}
        /\ SubSeq(visited, 1, 3) = <<"preprocess", "embed", "search">>
        /\ Len(visited) = 4 => visited[4] \in {"high_confidence", "validate"}
        /\ lastRun.result.success
        /\ emptyText => hasError(errors, "No normalized text for embedding")
        /\ embedderFailed => hasError(errors, "Embedding failed")
        /\ searchFailed => hasError(errors, "Search failed")
        /\ llmFailed => hasError(errors, "AI validation error")
        /\ Len(errors) =
             Cardinality({ f \in {"empty", "embed", "search", "llm"} :
                             \/ f = "empty" /\ emptyText
                             \/ f = "embed" /\ embedderFailed
                             \/ f = "search" /\ searchFailed
                             \/ f = "llm" /\ llmFailed })

\* A run in which the embedder failed and the LLM failed: four nodes
\* visited, both failures in errors
C27_Witness ==
  /\ lastRun.ran
  /\ lastRun.env.invokeOk
  /\ embedderFailed
  /\ llmFailed
  /\ lastRun.result.visited = <<"preprocess", "embed", "search", "validate">>
  /\ Len(lastRun.result.errors) = 2

\* A run over a source without text whose search failed: three nodes
\* visited, both failures in errors
C27_EmptyAndSearchFailed ==
  /\ lastRun.ran
  /\ lastRun.env.invokeOk
  /\ emptyText
  /\ searchFailed
  /\ Len(lastRun.result.visited) = 3
  /\ Len(lastRun.result.errors) = 2

\* The default minSimilarity of searchTm2BySimilarity (0.5)
MinSimilarity == 50

\* The rows of tm2_codes with an embedding, and the similarity of each to
\* the embedding of the source's text
Tm2Similarities == <<Cand("SK02", 80), Cand("SK03", 30)>>

\* embeddings.js searchTm2BySimilarity: no hit when the query embedding
\* cannot be made, else the rows at or above minSimilarity, nearest first.
\* (No node of the workflow calls it.)
searchTm2BySimilarity(embedOk) ==
  IF embedOk
    THEN SelectSeq(Tm2Similarities, LAMBDA c : c.score >= MinSimilarity)
    ELSE <<>>

\* C28: when the query embedding is available and the vector search has at
\* least one hit of similarity >= 0.5, the candidates the run works on are
\* exactly the vector hits.
C28_VectorHitsFirst ==
  (/\ lastRun.ran
   /\ lastRun.env.invokeOk
   /\ ~emptyText
   /\ lastRun.env.embedOk
   /\ Len(searchTm2BySimilarity(lastRun.env.embedOk)) >= 1)
    => lastRun.tm2Candidates = searchTm2BySimilarity(lastRun.env.embedOk)

\* The TM2 codes in ascending order of their text
Tm2CodeOrder == <<"SK00", "SK01", "SK02", "SK03">>
codeBefore(a, b) ==
  \E i, j \in 1..Len(Tm2CodeOrder) :
    i < j /\ Tm2CodeOrder[i] = a /\ Tm2CodeOrder[j] = b

\* C29: the candidate list of every run is in nonincreasing score order
\* with candidates of equal score in ascending order of their code.
C29_OrderedWithTies ==
  (lastRun.ran /\ lastRun.env.invokeOk) =>
    \A i, j \in 1..Len(lastRun.tm2Candidates) :
      i < j =>
        \/ lastRun.tm2Candidates[i].score > lastRun.tm2Candidates[j].score
        \/ /\ lastRun.tm2Candidates[i].score = lastRun.tm2Candidates[j].score
           /\ codeBefore(lastRun.tm2Candidates[i].code,
                         lastRun.tm2Candidates[j].code)

\* The part of C29 the code keeps: the scores never increase along the list
candidatesByScore ==
  (lastRun.ran /\ lastRun.env.invokeOk) =>
    \A i, j \in 1..Len(lastRun.tm2Candidates) :
      i < j => lastRun.tm2Candidates[i].score >= lastRun.tm2Candidates[j].score

\* C30: when every text field of the source code is empty, the run ends
\* UNMATCHED, with no target and confidence 0, and its errors are not
\* empty.
C30_EmptyTextUnmatched ==
  (lastRun.ran /\ emptyText) =>
    /\ lastRun.result.tm2Code = NULL
    /\ lastRun.result.confidence = 0
    /\ lastRun.result.equivalence = "UNMATCHED"
    /\ lastRun.result.errors # <<>>
    /\ lastRun.tm2Candidates = <<>>

\* A run over the source without text went through the graph, with an
\* embedder and a search that would have answered
C30_Witness ==
  /\ lastRun.ran
  /\ emptyText
  /\ lastRun.env.invokeOk
  /\ lastRun.env.embedOk
  /\ ~lastRun.env.search.throws
  /\ Len(lastRun.env.search.fulltext) > 0
  /\ lastRun.result.success
  /\ lastRun.result.visited = <<"preprocess", "embed", "search">>
  /\ lastRun.result.errors = <<"No normalized text for embedding">>

\* C31: after a PATCH /:id/validate answered 200, the row has the requested
\* validationStatus and both validatedBy and validatedAt are not null, also
\* when the body omits validatedBy.
C31_ValidatedHasValidator ==
  (lastValidate.done /\ lastValidate.response = 200) =>
    /\ mappings[lastValidate.id].validationStatus = lastValidate.status
    /\ mappings[lastValidate.id].validatedBy # NULL
    /\ mappings[lastValidate.id].validatedAt # NULL

\* The step is a request of a caller whose bucket is in its window: the
\* caller has had an earlier request in the same window
sameWindowRequest ==
  /\ limiterAnswer'.asked
  /\ limiterAnswer'.key \in DOMAIN rateLimitStore
  /\ rateLimitStore'[limiterAnswer'.key].windowStart
       = rateLimitStore[limiterAnswer'.key].windowStart
  /\ rateLimitStore'[limiterAnswer'.key].count
       = rateLimitStore[limiterAnswer'.key].count + 1

\* The X-RateLimit-Remaining and the limiter class of the caller's request
\* before the one of this step
previousSent == rateLimitStore[limiterAnswer'.key].sent

floorPercentage(completed, total) == (100 * completed) \div total

\* C33: after each counted item, progress.percentage is
\* floor(100 * completed / total), for every total from 1 to 100 and every
\* completed <= total.
C33_PercentageIsFloor ==
  lastProgress.total > 0 =>
    lastProgress.percentage
      = floorPercentage(lastProgress.completed, lastProgress.total)

\* The step is a call of get, of set
getStep == lru'.gets = lru.gets + 1
setStep == lru'.stats.sets = lru.stats.sets + 1

\* C35: get(k) on a held key returns the stored value exactly when
\* now < expiresAt; at any now >= expiresAt, the instant expiresAt
\* included, it removes the entry, counts a miss and returns no value.
C35_GetBeforeExpiry ==
  [][(getStep /\ lru'.last.key \in cacheKeys(lru.entries)) =>
       LET key == lru'.last.key
           item == itemOf(lru.entries, key)
       IN  IF now < item.expiresAt
             THEN lru'.last.returned = Some(item.value)
             ELSE /\ lru'.last.returned = None
                  /\ key \notin cacheKeys(lru'.entries)
                  /\ lru'.stats.misses = lru.stats.misses + 1]_vars

\* What the code keeps of C35: the value is returned up to and including
\* the instant expiresAt, and the entry is dropped with a miss after it
getUntilExpiry ==
  [][(getStep /\ lru'.last.key \in cacheKeys(lru.entries)) =>
       LET key == lru'.last.key
           item == itemOf(lru.entries, key)
       IN  IF now <= item.expiresAt
             THEN lru'.last.returned = Some(item.value)
             ELSE /\ lru'.last.returned = None
                  /\ key \notin cacheKeys(lru'.entries)
                  /\ lru'.stats.misses = lru.stats.misses + 1]_vars

\* C34: set(k, v) of a key not held, on a cache at capacity, evicts exactly
\* the least recently used entry (by get hits and sets) and no other; a set
\* of a key already held evicts nothing and makes the key the most recently
\* used (the last to be evicted); below capacity a set only adds.
C34_EvictsLeastRecentlyUsed ==
  [][setStep =>
       LET key == lru'.last.key
           held == cacheKeys(lru.entries)
       IN  IF key \in held
             THEN /\ cacheKeys(lru'.entries) = held
                  /\ lru'.stats.evictions = lru.stats.evictions
                  /\ lru'.entries[Len(lru'.entries)].key = key
           ELSE IF Len(lru.entries) >= CacheMaxSize
             THEN /\ cacheKeys(lru'.entries)
                       = (held \ {Head(lru.used)}) \cup {key}
                  /\ lru'.stats.evictions = lru.stats.evictions + 1
           ELSE /\ cacheKeys(lru'.entries) = held \cup {key}
                /\ lru'.stats.evictions = lru.stats.evictions]_vars

\* What the code keeps of C34: a set of a key not held evicts, at capacity,
\* the first key of the Map and no other, and below capacity only adds
setOfNewKey ==
  [][(setStep /\ lru'.last.key \notin cacheKeys(lru.entries)) =>
       IF Len(lru.entries) >= CacheMaxSize
         THEN cacheKeys(lru'.entries)
                = (cacheKeys(lru.entries) \ {Head(lru.entries).key})
                    \cup {lru'.last.key}
         ELSE cacheKeys(lru'.entries)
                = cacheKeys(lru.entries) \cup {lru'.last.key}]_vars

\* C39: after any sequence of get, set, delete and clear, the cache holds
\* at most maxSize entries, one per key, and stats.hits + stats.misses is
\* the number of get calls made.
C39_SizeAndCounters ==
  /\ Len(lru.entries) <= CacheMaxSize
  /\ Cardinality(cacheKeys(lru.entries)) = Len(lru.entries)
  /\ lru.stats.hits + lru.stats.misses = lru.gets

\* A full cache after an eviction, a hit and a miss
C39_Witness ==
  /\ Len(lru.entries) = CacheMaxSize
  /\ lru.stats.evictions >= 1
  /\ lru.stats.hits >= 1
  /\ lru.stats.misses >= 1

\* The history of forwarded requests still holds every request of the
\* answered caller's window
windowInHistory == answeredBucket.windowStart >= now + 1 - WindowMs

\* C36: a caller is answered 429 by the batch limiter only when the
\* caller's own batch requests have used up the batch quota of the window;
\* requests the caller made through another limiter do not count.
C36_QuotaPerClass ==
  (/\ limiterAnswer.asked
   /\ limiterAnswer.class = "batch"
   /\ limiterAnswer.status = "429"
   /\ windowInHistory)
    => forwardsSince("batch", limiterAnswer.key, answeredBucket.windowStart)
         = MaxRequestsBatch

\* The step is a request of a caller with no bucket or with a bucket whose
\* window is over (more than WindowMs since its windowStart)
freshWindowRequest ==
  /\ limiterAnswer'.asked
  /\ \/ limiterAnswer'.key \notin DOMAIN rateLimitStore
     \/ now - rateLimitStore[limiterAnswer'.key].windowStart > WindowMs

\* C38: a request of a caller whose window is over (or whose bucket the
\* sweep removed) starts a new window with count 1 at the time of the
\* request and is forwarded, however many requests of the caller were
\* rejected in the window before.
C38_NewWindowForwards ==
  [][freshWindowRequest =>
       LET key == limiterAnswer'.key
       IN  /\ rateLimitStore'[key].count = 1
           /\ rateLimitStore'[key].windowStart = now
           /\ limiterAnswer'.status = "next"
           /\ forwarded' = [forwarded EXCEPT
                              ![limiterAnswer'.class][key] = Append(@, now)]]_vars

\* A caller whose latest request was answered 429 has been forwarded in a
\* new window, its old bucket still being in the store
C38_Witness ==
  /\ limiterAnswer.asked
  /\ limiterAnswer.replaced = Some(TRUE)
  /\ limiterAnswer.status = "next"
  /\ answeredBucket.count = 1
  /\ answeredBucket.windowStart = now

\* The statuses spec and code call terminal (JobStatus, lines 250-256)
TerminalStatuses ==
  {JobStatus.COMPLETED, JobStatus.FAILED, JobStatus.CANCELLED}

\* The job has a terminal status and no processJob call of it is running
jobEnded(j) ==
  /\ j \in JobIds
  /\ jobs[j].status \in TerminalStatuses
  /\ j \notin runningJobs

\* C37: when every await of processJob is eventually resumed, then whatever
\* admissions and cancellations are made, from some point on every admitted
\* job has a terminal status and no running worker loop: no job stays
\* PENDING or PROCESSING forever, and a job that waited in the queue has
\* been started or was cancelled.
C37_JobsEnd == <>[](\A j \in JobIds : jobEnded(j))

\* A job admitted as PENDING behind maxConcurrent active jobs, never
\* cancelled, has been started and has finished
C37_Witness ==
  \E j \in JobIds :
    /\ jobs[j].admission # None
    /\ jobs[j].admission[1].status = JobStatus.PENDING
    /\ ~jobs[j].cancelled
    /\ jobs[j].pc = "exited"
    /\ jobs[j].status \in {JobStatus.COMPLETED, JobStatus.FAILED}

====
